---- MODULE Spec2Model ----
(***************************************************************************)
(* Model of patient-registration.resource.tsx: the REST client functions   *)
(* of the patient-registration app (savePatient ... deletePatientIdentifier,*)
(* savePatientPhoto with dataURItoFile, the usePatientPhoto hook and        *)
(* fetchPerson), together with the transport (openmrsFetch) and the         *)
(* reactive-fetch collaborator (useSWR) they hand their requests to.        *)
(*                                                                         *)
(* JavaScript strings that the code takes apart (data URIs) are sequences   *)
(* of one-character strings; strings that are only concatenated (URLs) are  *)
(* TLA+ strings.  undefined and null are tagged records.                    *)
(***************************************************************************)
EXTENDS Integers, Sequences, FiniteSets, TLC

VARIABLES
    calls,        \* the calls made to the exported functions, in call order
    requests,     \* the requests handed to openmrsFetch, in issue order
    controllers,  \* the AbortControllers constructed: aborted flag of each
    photo         \* what the last render of usePatientPhoto returned

vars == <<calls, requests, controllers, photo>>

-----------------------------------------------------------------------------
(* Bounds of the model *)

MaxCalls == 2
MaxPayloadLen == 4

-----------------------------------------------------------------------------
(* JavaScript values *)

Undefined == [t |-> "undefined"]
Null == [t |-> "null"]
Str(s) == [t |-> "string", v |-> s]

\* ToBoolean of a string-or-undefined value: undefined and '' are falsy.
Truthy(x) == x.t = "string" /\ x.v # ""

\* a || b
Or(a, b) == IF Truthy(a) THEN a ELSE b

\* `${x}` in a template literal
Interpolate(x) == IF x.t = "string" THEN x.v ELSE x.t

-----------------------------------------------------------------------------
(* Character-level strings: String.prototype.split, atob *)

RECURSIVE SplitFrom(_, _, _, _, _)
SplitFrom(s, sep, i, cur, acc) ==
    IF i > Len(s) THEN Append(acc, cur)
    ELSE IF s[i] = sep THEN SplitFrom(s, sep, i + 1, <<>>, Append(acc, cur))
    ELSE SplitFrom(s, sep, i + 1, Append(cur, s[i]), acc)

\* s.split(sep) for a one-character separator: every segment, at least one.
Split(s, sep) == SplitFrom(s, sep, 1, <<>>, <<>>)

\* At with a default of '' past the end (segs[i] ?? '').
AtOrEmpty(segs, i) == IF i + 1 <= Len(segs) THEN Str(segs[i + 1]) ELSE Str(<<>>)

\* segs[i] with JavaScript's zero-based index: undefined past the end.
At(segs, i) == IF i + 1 <= Len(segs) THEN Str(segs[i + 1]) ELSE Undefined

\* String(x) of a character-level value, as atob converts its argument.
ToChars(x) ==
    IF x.t = "string" THEN x.v
    ELSE <<"u", "n", "d", "e", "f", "i", "n", "e", "d">>

Base64Alphabet ==
    << "A", "B", "C", "D", "E", "F", "G", "H", "I", "J", "K", "L", "M",
       "N", "O", "P", "Q", "R", "S", "T", "U", "V", "W", "X", "Y", "Z",
       "a", "b", "c", "d", "e", "f", "g", "h", "i", "j", "k", "l", "m",
       "n", "o", "p", "q", "r", "s", "t", "u", "v", "w", "x", "y", "z",
       "0", "1", "2", "3", "4", "5", "6", "7", "8", "9", "+", "/" >>

Base64Chars == {Base64Alphabet[i] : i \in 1..Len(Base64Alphabet)}

Base64Index(c) == (CHOOSE i \in 1..Len(Base64Alphabet) : Base64Alphabet[i] = c) - 1

AsciiWhitespace == {" ", "\t", "\n", "\f", "\r"}

RECURSIVE StripWhitespace(_)
StripWhitespace(s) ==
    IF s = <<>> THEN <<>>
    ELSE IF Head(s) \in AsciiWhitespace THEN StripWhitespace(Tail(s))
    ELSE <<Head(s)>> \o StripWhitespace(Tail(s))

\* Step 2 of forgiving-base64 decode: when the length is a multiple of four,
\* drop one or two trailing '='.
StripPadding(s) ==
    IF Len(s) % 4 = 0 /\ Len(s) > 0 /\ s[Len(s)] = "="
    THEN IF s[Len(s) - 1] = "="
         THEN SubSeq(s, 1, Len(s) - 2)
         ELSE SubSeq(s, 1, Len(s) - 1)
    ELSE s

\* The bytes of the sextets s[i..], with `buf` holding `n` sextets so far.
RECURSIVE DecodeSextets(_, _, _, _)
DecodeSextets(s, i, buf, n) ==
    IF i > Len(s)
    THEN CASE n = 2 -> <<buf \div 16>>
           [] n = 3 -> <<(buf \div 4) \div 256, (buf \div 4) % 256>>
           [] OTHER -> <<>>
    ELSE LET b == buf * 64 + Base64Index(s[i])
         IN  IF n = 3
             THEN <<b \div 65536, (b \div 256) % 256, b % 256>>
                      \o DecodeSextets(s, i + 1, 0, 0)
             ELSE DecodeSextets(s, i + 1, b, n + 1)

\* atob(x): the decoded string as its character codes, or the exception.
atob(x) ==
    LET data == StripPadding(StripWhitespace(ToChars(x)))
    IN  IF Len(data) % 4 = 1 \/ \E i \in 1..Len(data) : data[i] \notin Base64Chars
        THEN [t |-> "throw", error |-> "InvalidCharacterError"]
        ELSE [t |-> "return", value |-> DecodeSextets(data, 1, 0, 0)]

-----------------------------------------------------------------------------
(* dataURItoFile *)

\* The loop stopping one element early (i < byteString.length - 1).
FillBufferShort(buffer, byteString, i) ==
    [j \in 1..Len(buffer) |-> IF j < Len(byteString) THEN byteString[j] % 256 ELSE buffer[j]]

\* The loop of lines 16-18 from index i on: buffer[i] = byteString.charCodeAt(i),
\* stored into a Uint8Array element.
RECURSIVE FillBuffer(_, _, _)
FillBuffer(buffer, byteString, i) ==
    IF i < Len(byteString)
    THEN FillBuffer([buffer EXCEPT ![i + 1] = byteString[i + 1] % 256],
                    byteString, i + 1)
    ELSE buffer

\* new Uint8Array(n)
Uint8Array(n) == [i \in 1..n |-> 0]

dataURItoFile(dataURI) ==
    LET decoded == atob(At(Split(dataURI, ","), 1))
        mimePart == At(Split(Split(dataURI, ",")[1], ":"), 1)
    IN  IF decoded.t = "throw" THEN decoded
        ELSE IF mimePart.t = "undefined"
        THEN [t |-> "throw", error |-> "TypeError"]
        ELSE LET byteString == decoded.value
                 mimeString == Split(mimePart.v, ";")[1]
                 buffer == FillBuffer(Uint8Array(Len(byteString)), byteString, 0)
                 blob == [type |-> mimeString, bytes |-> buffer]
             IN  [t |-> "return",
                  value |-> [name |-> "patient-photo.png", parts |-> <<blob>>]]

-----------------------------------------------------------------------------
(* The inputs the callers pass and the values the backend answers with *)

PatientUuids == {"abc", "xyz"}
UuidArgs == {Undefined, Str(""), Str("abc")}
Patients == {[person |-> "ann"]}
Encounters == {[encounterType |-> "registration"]}
Sources == {"src-1", "src-2"}
Relationships == {[relationshipType |-> "sibling", personA |-> "abc", personB |-> "xyz"]}
PatientIdentifiers == {[identifier |-> "100-1", identifierType |-> "openmrs-id"]}
Queries == {"ann", "bob"}
PhotoUrls == {"/ws/rest/v1/obs"}
Dates == {"2024-01-01"}

\* useConfig().concepts.patientPhotoUuid
patientPhotoUuid == "photo-concept"

Obs1 ==
    [display |-> "photo", obsDatetime |-> "2024-01-01", uuid |-> "obs-1",
     value |-> [display |-> "raw", links |-> [rel |-> "complexdata", uri |-> "/obs/obs-1/value"]]]
Obs2 ==
    [display |-> "photo", obsDatetime |-> "2023-06-30", uuid |-> "obs-2",
     value |-> [display |-> "raw", links |-> [rel |-> "complexdata", uri |-> "/obs/obs-2/value"]]]

SearchResults == {<<>>, <<"hit-1">>, <<"hit-2", "hit-1">>}
ObsResults == {<<>>, <<Obs1>>, <<Obs1, Obs2>>, <<Obs2, Obs1>>}
TransportErrors == {"NetworkError", "OpenmrsFetchError"}

\* Character-level data URIs: a head followed by up to MaxPayloadLen + 1
\* further characters, the comma among them.
DataHeads ==
    { <<"d", "a", "t", "a", ":", "i", "m", "a", "g", "e", "/", "p", "n", "g",
        ";", "b", "a", "s", "e", "6", "4">>,
      <<"d", "a", "t", "a", ":", "t", "e", "x", "t", "/", "x",
        ";", "b", "a", "s", "e", "6", "4">>,
      <<"d", "a", "t", "a">> }
TailChars == {",", "Q", "U", "/", "=", "!"}
DataTails == UNION {[1..n -> TailChars] : n \in 0..(MaxPayloadLen + 1)}
DataURIs == {h \o t : h \in DataHeads, t \in DataTails}

\* The few data URIs the callers of the full system pass.
SampleContents ==
    { <<"d", "a", "t", "a", ":", "i", "m", "a", "g", "e", "/", "p", "n", "g",
        ";", "b", "a", "s", "e", "6", "4", ",", "Q", "U", "I", "=">>,
      <<"d", "a", "t", "a", ":", "i", "m", "a", "g", "e", "/", "p", "n", "g",
        ";", "b", "a", "s", "e", "6", "4", "Q", "U", "I", "=">> }

-----------------------------------------------------------------------------
(* The transport: openmrsFetch *)

JsonHeaders == [ContentType |-> "application/json"]
Pending == [state |-> "pending"]

\* openmrsFetch(url, init) called from call `c`: one more request in flight.
\* A field the init object lacks is undefined; the method defaults to GET.
openmrsFetch(reqs, c, url, init) ==
    Append(reqs,
           [call |-> c, url |-> url,
            method |-> IF "method" \in DOMAIN init THEN init.method ELSE "GET",
            headers |-> IF "headers" \in DOMAIN init THEN init.headers ELSE Undefined,
            body |-> IF "body" \in DOMAIN init THEN init.body ELSE Undefined,
            signal |-> IF "signal" \in DOMAIN init THEN init.signal ELSE 0,
            result |-> Pending])

\* One controller shared by the calls instead of one constructed per call.
SharedAbortController(ctrls) == 1

\* new AbortController(): the controller's index; its signal starts unaborted.
NewAbortController(ctrls) == Len(ctrls) + 1

ObsUrl(patientUuid) ==
    "/ws/rest/v1/obs?patient=" \o patientUuid \o "&concept=" \o patientPhotoUuid \o "&v=full"
PersonUrl(query) == "/ws/rest/v1/person?q=" \o query
PatientSearchUrl(query) == "/ws/rest/v1/patient?q=" \o query

\* What the backend may answer to a request.
Responses(r) ==
    IF r.url \in {PersonUrl(q) : q \in Queries} \cup {PatientSearchUrl(q) : q \in Queries}
    THEN {[status |-> 200, data |-> [results |-> rs]] : rs \in SearchResults}
             \cup {[status |-> 204, data |-> Undefined]}
    ELSE IF r.url \in {ObsUrl(u) : u \in PatientUuids \cup {""}}
    THEN {[status |-> 200, data |-> [results |-> rs]] : rs \in ObsResults}
             \cup {[status |-> 204, data |-> Undefined]}
    ELSE IF r.method = "DELETE" THEN {[status |-> 204, data |-> Null]}
    ELSE {[status |-> 201, data |-> [uuid |-> "created"]]}

\* How a request in flight may end: with a response, with a transport error,
\* or, when its signal has been aborted, with an AbortError.
Outcomes(r) ==
    IF r.signal # 0 /\ controllers[r.signal]
    THEN {[state |-> "rejected", error |-> "AbortError"]}
    ELSE {[state |-> "fulfilled", value |-> v] : v \in Responses(r)}
             \cup {[state |-> "rejected", error |-> e] : e \in TransportErrors}

\* The transport settles request i.
Respond(i) ==
    /\ requests[i].result = Pending
    /\ \E o \in Outcomes(requests[i]) :
           requests' = [requests EXCEPT ![i].result = o]
    /\ UNCHANGED <<calls, controllers, photo>>

-----------------------------------------------------------------------------
(* The create/update/delete request functions *)

\* The shape shared by the ten functions: construct an AbortController, hand
\* one request to openmrsFetch with its signal, return the promise.
IssueOne(fn, args, url, init) ==
    LET signal == NewAbortController(controllers)
    IN  /\ controllers' = Append(controllers, FALSE)
        /\ requests' = openmrsFetch(requests, Len(calls) + 1, url,
                                    init @@ [signal |-> signal])
        /\ calls' = Append(calls, [fn |-> fn, args |-> args, signal |-> signal,
                                   pc |-> "done",
                                   ret |-> [t |-> "promise", req |-> Len(requests) + 1]])
        /\ UNCHANGED photo

\* The path without the `|| ''` default.
SavePatientUrlNoDefault(updatePatientUuid) ==
    "/ws/rest/v1/patient/" \o Interpolate(updatePatientUuid)

\* `/ws/rest/v1/patient/${updatePatientUuid || ''}`
SavePatientUrl(updatePatientUuid) ==
    "/ws/rest/v1/patient/" \o Interpolate(Or(updatePatientUuid, Str("")))

savePatient(patient, updatePatientUuid) ==
    IssueOne("savePatient", <<patient, updatePatientUuid>>,
             SavePatientUrl(updatePatientUuid),
             [headers |-> JsonHeaders, method |-> "POST", body |-> patient])

saveEncounter(encounter) ==
    IssueOne("saveEncounter", <<encounter>>, "/ws/rest/v1/encounter",
             [headers |-> JsonHeaders, method |-> "POST", body |-> encounter])

\* generateIdentifier answering a repeated source from the request already made.
generateIdentifierMemo(source) ==
    LET url == "/ws/rest/v1/idgen/identifiersource/" \o source \o "/identifier"
        made == {i \in 1..Len(requests) : requests[i].url = url}
    IN  IF made = {}
        THEN IssueOne("generateIdentifier", <<source>>, url,
                      [headers |-> JsonHeaders, method |-> "POST", body |-> [t |-> "object"]])
        ELSE /\ controllers' = Append(controllers, FALSE)
             /\ calls' = Append(calls, [fn |-> "generateIdentifier", args |-> <<source>>,
                                        signal |-> NewAbortController(controllers),
                                        pc |-> "done",
                                        ret |-> [t |-> "promise",
                                                 req |-> CHOOSE i \in made : TRUE]])
             /\ UNCHANGED <<requests, photo>>

generateIdentifier(source) ==
    IssueOne("generateIdentifier", <<source>>,
             "/ws/rest/v1/idgen/identifiersource/" \o source \o "/identifier",
             [headers |-> JsonHeaders, method |-> "POST", body |-> [t |-> "object"]])

deletePersonName(nameUuid, personUuid) ==
    IssueOne("deletePersonName", <<nameUuid, personUuid>>,
             "/ws/rest/v1/person/" \o personUuid \o "/name/" \o nameUuid,
             [method |-> "DELETE"])

saveRelationship(relationship) ==
    IssueOne("saveRelationship", <<relationship>>, "/ws/rest/v1/relationship",
             [headers |-> JsonHeaders, method |-> "POST", body |-> relationship])

updateRelationship(relationshipUuid, relationship) ==
    IssueOne("updateRelationship", <<relationshipUuid, relationship>>,
             "/ws/rest/v1/relationship/" \o relationshipUuid,
             [headers |-> JsonHeaders, method |-> "POST",
              body |-> [relationshipType |-> relationship.relationshipType]])

deleteRelationship(relationshipUuid) ==
    IssueOne("deleteRelationship", <<relationshipUuid>>,
             "/ws/rest/v1/relationship/" \o relationshipUuid,
             [headers |-> JsonHeaders, method |-> "DELETE"])

addPatientIdentifier(patientUuid, patientIdentifier) ==
    IssueOne("addPatientIdentifier", <<patientUuid, patientIdentifier>>,
             "/ws/rest/v1/patient/" \o patientUuid \o "/identifier/",
             [method |-> "POST", headers |-> JsonHeaders, body |-> patientIdentifier])

updatePatientIdentifier(patientUuid, identifierUuid, identifier) ==
    IssueOne("updatePatientIdentifier", <<patientUuid, identifierUuid, identifier>>,
             "/ws/rest/v1/patient/" \o patientUuid \o "/identifier/" \o identifierUuid,
             [method |-> "POST", headers |-> JsonHeaders,
              body |-> [identifier |-> identifier]])

deletePatientIdentifier(patientUuid, patientIdentifierUuid) ==
    IssueOne("deletePatientIdentifier", <<patientUuid, patientIdentifierUuid>>,
             "/ws/rest/v1/patient/" \o patientUuid \o "/identifier/"
                 \o patientIdentifierUuid \o "?purge",
             [method |-> "DELETE", headers |-> JsonHeaders])

-----------------------------------------------------------------------------
(* savePatientPhoto *)

\* JSON.stringify({ person, concept, groupMembers: [], obsDatetime }) of
\* strings that need no escaping.
PhotoJson(person, concept, obsDatetime) ==
    "{\"person\":\"" \o person \o "\",\"concept\":\"" \o concept
        \o "\",\"groupMembers\":[],\"obsDatetime\":\"" \o obsDatetime \o "\"}"

\* The form of lines 119-130, once the file is there.
PhotoForm(patientUuid, file, date, conceptUuid) ==
    [t |-> "FormData",
     entries |-> << <<"patient", Str(patientUuid)>>,
                    <<"file", file>>,
                    <<"json", Str(PhotoJson(patientUuid, conceptUuid, date))>> >>]

\* An async function: a throw of dataURItoFile, which runs before the call of
\* openmrsFetch, rejects the returned promise.
savePatientPhoto(patientUuid, content, url, date, conceptUuid) ==
    LET signal == NewAbortController(controllers)
        file == dataURItoFile(content)
        args == <<patientUuid, content, url, date, conceptUuid>>
    IN  /\ controllers' = Append(controllers, FALSE)
        /\ IF file.t = "throw"
           THEN /\ requests' = requests
                /\ calls' = Append(calls,
                       [fn |-> "savePatientPhoto", args |-> args, signal |-> signal,
                        pc |-> "done",
                        ret |-> [t |-> "rejected", error |-> file.error]])
           ELSE /\ requests' = openmrsFetch(requests, Len(calls) + 1, url,
                       [method |-> "POST", signal |-> signal,
                        body |-> PhotoForm(patientUuid, file.value, date, conceptUuid)])
                /\ calls' = Append(calls,
                       [fn |-> "savePatientPhoto", args |-> args, signal |-> signal,
                        pc |-> "done",
                        ret |-> [t |-> "promise", req |-> Len(requests) + 1]])
        /\ UNCHANGED photo

-----------------------------------------------------------------------------
(* usePatientPhoto *)

\* The request the reactive-fetch collaborator holds for a key, if any: it
\* calls the fetcher, openmrsFetch(key), once per key and keeps the outcome.
SwrRequests(key) ==
    {i \in 1..Len(requests) : requests[i].call = 0 /\ requests[i].url = key.v}

\* What useSWR(key, openmrsFetch) returns to the render: idle for a null
\* key, loading while the key's request is in flight (or is just being
\* issued), then the response or the error.
useSWR(key) ==
    IF key = Null \/ SwrRequests(key) = {}
    THEN [data |-> Undefined, error |-> Undefined, isLoading |-> key # Null]
    ELSE LET r == requests[CHOOSE i \in SwrRequests(key) : TRUE].result
         IN  [data |-> IF r.state = "fulfilled" THEN r.value ELSE Undefined,
              error |-> IF r.state = "rejected" THEN [t |-> "error", name |-> r.error]
                        ELSE Undefined,
              isLoading |-> r.state = "pending"]

\* The key without the guard on patientUuid.
PhotoKeyAlways(patientUuid) == Str(ObsUrl(patientUuid))

\* patientUuid ? url : null
PhotoKey(patientUuid) ==
    IF patientUuid # "" THEN Str(ObsUrl(patientUuid)) ELSE Null

\* The last observation of the list instead of the first.
PhotoItemLast(data) ==
    IF data = Undefined THEN Undefined
    ELSE IF data.data = Undefined THEN Undefined
    ELSE IF data.data.results = <<>> THEN Undefined
    ELSE data.data.results[Len(data.data.results)]

\* data?.data?.results[0]
PhotoItem(data) ==
    IF data = Undefined THEN Undefined
    ELSE IF data.data = Undefined THEN Undefined
    ELSE IF data.data.results = <<>> THEN Undefined
    ELSE data.data.results[1]

\* The object of lines 172-181.
PhotoResult(swr) ==
    LET item == PhotoItem(swr.data)
    IN  [data |-> IF item # Undefined
                  THEN [dateTime |-> item.obsDatetime,
                        imageSrc |-> item.value.links.uri]
                  ELSE Null,
         isError |-> swr.error,
         isLoading |-> swr.isLoading]

\* One render of a component that calls usePatientPhoto(patientUuid).
usePatientPhoto(patientUuid) ==
    LET key == PhotoKey(patientUuid)
        swr == useSWR(key)
    IN  /\ requests' = IF key # Null /\ SwrRequests(key) = {}
                       THEN openmrsFetch(requests, 0, key.v, [x \in {} |-> 0])
                       ELSE requests
        /\ photo' = [t |-> "render", patientUuid |-> patientUuid, key |-> key,
                     swr |-> swr, ret |-> PhotoResult(swr)]
        /\ UNCHANGED <<calls, controllers>>

-----------------------------------------------------------------------------
(* fetchPerson *)

\* Lines 186-192: the person search is issued and the function awaits it.
fetchPerson(query) ==
    LET signal == NewAbortController(controllers)
    IN  /\ controllers' = Append(controllers, FALSE)
        /\ requests' = openmrsFetch(requests, Len(calls) + 1, PersonUrl(query),
                                    [signal |-> signal])
        /\ calls' = Append(calls, [fn |-> "fetchPerson", args |-> <<query>>,
                                   signal |-> signal, pc |-> "awaitPerson",
                                   ret |-> [t |-> "pending"]])
        /\ UNCHANGED photo

\* results.length > 1
HasResultsOffByOne(results) == Len(results) > 1

\* results.length > 0
HasResults(results) == Len(results) > 0

\* A result object that loses the results.
PersonResultsEmpty(results) == [data |-> [results |-> <<>>]]

\* { data: { results } }
PersonResults(results) == [data |-> [results |-> results]]

\* A catch clause that throws an error of its own.
RethrowWrapped(error) == "Error"

\* catch (error) { throw error; }
Rethrow(error) == error

\* The first request a call issued: for fetchPerson, the person search.
FirstRequest(c) ==
    CHOOSE i \in 1..Len(requests) :
        /\ requests[i].call = c
        /\ \A j \in 1..(i - 1) : requests[j].call # c

\* Lines 190-202, run when the awaited person search has settled: a rejection
\* is caught and thrown again; a response without data fails the destructuring
\* and that TypeError is caught and thrown again; results are returned in a
\* new object; no results hand the patient search's own promise back.
FetchPersonResume(c) ==
    /\ calls[c].fn = "fetchPerson"
    /\ calls[c].pc = "awaitPerson"
    /\ LET person == FirstRequest(c)
           r == requests[person].result
       IN  /\ r # Pending
           /\ IF r.state = "rejected"
              THEN /\ calls' = [calls EXCEPT ![c].pc = "done",
                                             ![c].ret = [t |-> "rejected", error |-> Rethrow(r.error)]]
                   /\ requests' = requests
              ELSE IF r.value.data = Undefined
              THEN /\ calls' = [calls EXCEPT ![c].pc = "done",
                                             ![c].ret = [t |-> "rejected", error |-> Rethrow("TypeError")]]
                   /\ requests' = requests
              ELSE IF HasResults(r.value.data.results)
              THEN /\ calls' = [calls EXCEPT ![c].pc = "done",
                         ![c].ret = [t |-> "fulfilled",
                                     value |-> PersonResults(r.value.data.results)]]
                   /\ requests' = requests
              ELSE /\ requests' = openmrsFetch(requests, c,
                                      PatientSearchUrl(calls[c].args[1]),
                                      [signal |-> calls[c].signal])
                   /\ calls' = [calls EXCEPT ![c].pc = "done",
                         ![c].ret = [t |-> "promise", req |-> Len(requests) + 1]]
    /\ UNCHANGED <<controllers, photo>>

\* What the promise a call returned has settled to, or that it is pending.
CallResult(c) ==
    IF calls[c].ret.t = "promise" THEN requests[calls[c].ret.req].result
    ELSE IF calls[c].ret.t = "fulfilled"
    THEN [state |-> "fulfilled", value |-> calls[c].ret.value]
    ELSE IF calls[c].ret.t = "rejected"
    THEN [state |-> "rejected", error |-> calls[c].ret.error]
    ELSE Pending

-----------------------------------------------------------------------------
(* The system: callers call the functions in any order and interleaving,   *)
(* components render the hook, the transport settles the requests.         *)

Init ==
    /\ calls = <<>>
    /\ requests = <<>>
    /\ controllers = <<>>
    /\ photo = Undefined

\* The callers make at most MaxCalls calls in all.
CanCall == Len(calls) < MaxCalls

\* The promise-returning functions, called in any order and interleaving.
Next ==
    \/ \E p \in Patients, u \in UuidArgs : CanCall /\ savePatient(p, u)
    \/ \E e \in Encounters : CanCall /\ saveEncounter(e)
    \/ \E s \in Sources : CanCall /\ generateIdentifier(s)
    \/ CanCall /\ deletePersonName("name-1", "abc")
    \/ \E r \in Relationships : CanCall /\ saveRelationship(r)
    \/ \E r \in Relationships : CanCall /\ updateRelationship("rel-1", r)
    \/ CanCall /\ deleteRelationship("rel-1")
    \/ \E id \in PatientIdentifiers : CanCall /\ addPatientIdentifier("abc", id)
    \/ CanCall /\ updatePatientIdentifier("abc", "id-1", "100-2")
    \/ CanCall /\ deletePatientIdentifier("abc", "id-1")
    \/ \E c \in SampleContents, url \in PhotoUrls, d \in Dates :
           CanCall /\ savePatientPhoto("abc", c, url, d, patientPhotoUuid)
    \/ \E q \in Queries : CanCall /\ fetchPerson(q)
    \/ \E c \in 1..Len(calls) : FetchPersonResume(c)
    \/ \E i \in 1..Len(requests) : Respond(i)

Spec == Init /\ [][Next]_vars

\* The hook, rendered any number of times with any patient uuid.
NextHook ==
    \/ \E u \in PatientUuids \cup {""} : usePatientPhoto(u)
    \/ \E i \in 1..Len(requests) : Respond(i)

SpecHook == Init /\ [][NextHook]_vars

\* One photo upload, its data URI drawn from the bounded character-level set.
NextPhoto ==
    \/ /\ calls = <<>>
       /\ \E c \in DataURIs, url \in PhotoUrls, d \in Dates :
              savePatientPhoto("abc", c, url, d, patientPhotoUuid)
    \/ \E i \in 1..Len(requests) : Respond(i)

SpecPhoto == Init /\ [][NextPhoto]_vars

-----------------------------------------------------------------------------
(* Properties.  Helpers read the state only. *)

\* The requests call c issued, in issue order.
RequestsOf(c) == {i \in 1..Len(requests) : requests[i].call = c}

CallsOf(fn) == {c \in 1..Len(calls) : calls[c].fn = fn}

\* The second request of a fetchPerson call: the patient search.
SecondRequest(c) == CHOOSE i \in RequestsOf(c) : i # FirstRequest(c)

\* The person search of call c was answered with this many results or more.
PersonAnswered(c, n) ==
    LET r == requests[FirstRequest(c)].result
    IN  /\ r.state = "fulfilled"
        /\ r.value.data # Undefined
        /\ Len(r.value.data.results) >= n

\* C1: a finished fetchPerson(q) whose person search was answered with one or
\* more results has returned those results; one whose person search was
\* answered with no results has returned the patient search's promise itself,
\* so its result is, at every moment, exactly what that request settled to.
C1_FetchPersonResult ==
    \A c \in CallsOf("fetchPerson") :
        calls[c].pc = "done" /\ PersonAnswered(c, 0) =>
            LET results == requests[FirstRequest(c)].result.value.data.results
            IN  IF Len(results) > 0
                THEN /\ CallResult(c).state = "fulfilled"
                     /\ CallResult(c).value.data.results = results
                ELSE /\ Cardinality(RequestsOf(c)) = 2
                     /\ requests[SecondRequest(c)].url = PatientSearchUrl(calls[c].args[1])
                     /\ CallResult(c) = requests[SecondRequest(c)].result

\* Two finished searches side by side: one returned its person results, the
\* other returned a patient-search response that holds results.
C1_Witness ==
    \E c, d \in CallsOf("fetchPerson") :
        /\ calls[c].pc = "done" /\ PersonAnswered(c, 1)
        /\ CallResult(c).state = "fulfilled"
        /\ calls[d].pc = "done" /\ PersonAnswered(d, 0) /\ ~PersonAnswered(d, 1)
        /\ CallResult(d).state = "fulfilled"
        /\ CallResult(d).value.status = 200
        /\ Len(CallResult(d).value.data.results) = 2

\* C2: every savePatient(patient, uuid) has issued a POST with the JSON
\* content type and the patient as body, to /ws/rest/v1/patient/<uuid> for a
\* non-empty uuid ("abc": /ws/rest/v1/patient/abc) and to /ws/rest/v1/patient/
\* for an undefined or empty one.
C2_SavePatientRequest ==
    \A c \in CallsOf("savePatient") :
        LET r == requests[calls[c].ret.req]
            patient == calls[c].args[1]
            uuid == calls[c].args[2]
        IN  /\ r.call = c
            /\ r.method = "POST"
            /\ r.headers = [ContentType |-> "application/json"]
            /\ r.body = patient
            /\ uuid = Str("abc") => r.url = "/ws/rest/v1/patient/abc"
            /\ uuid \in {Undefined, Str("")} => r.url = "/ws/rest/v1/patient/"

\* savePatient was called once with "abc" and once with no uuid.
C2_Witness ==
    \E c, d \in CallsOf("savePatient") :
        /\ calls[c].args[2] = Str("abc")
        /\ calls[d].args[2] = Undefined

CrudFns ==
    {"savePatient", "saveEncounter", "generateIdentifier", "deletePersonName",
     "saveRelationship", "updateRelationship", "deleteRelationship",
     "addPatientIdentifier", "updatePatientIdentifier", "deletePatientIdentifier"}

CrudCalls == {c \in 1..Len(calls) : calls[c].fn \in CrudFns}

\* C6: every call of a create/update/delete function has issued exactly one
\* request, so n such calls have issued exactly n requests, repeated
\* generateIdentifier calls for the same source included.
C6_OneRequestPerCall ==
    /\ \A c \in CrudCalls :
           /\ Cardinality(RequestsOf(c)) = 1
           /\ calls[c].ret = [t |-> "promise", req |-> CHOOSE i \in RequestsOf(c) : TRUE]
    /\ Cardinality({i \in 1..Len(requests) : requests[i].call \in CrudCalls})
           = Cardinality(CrudCalls)

\* generateIdentifier was called twice for the same source.
C6_Witness ==
    \E c, d \in CallsOf("generateIdentifier") :
        c # d /\ calls[c].args = calls[d].args

\* C7: every call has a controller of its own, every request carries the
\* signal of the call that issued it, no controller is ever aborted, and no
\* request has ended with an AbortError.
C7_OwnInertToken ==
    /\ \A c, d \in 1..Len(calls) : c # d => calls[c].signal # calls[d].signal
    /\ \A c \in 1..Len(calls) : calls[c].signal \in 1..Len(controllers)
    /\ \A i \in 1..Len(requests) :
           /\ requests[i].signal = calls[requests[i].call].signal
           /\ requests[i].result.state = "rejected"
                  => requests[i].result.error \in TransportErrors
    /\ \A k \in 1..Len(controllers) : ~controllers[k]

\* Two calls with requests in flight at the same time, and a third request
\* that has already ended.
C7_Witness ==
    /\ Len(calls) >= 2
    /\ \E i, j \in 1..Len(requests) :
           /\ requests[i].call # requests[j].call
           /\ requests[i].result = Pending
           /\ requests[j].result # Pending
    /\ \E c \in CallsOf("fetchPerson") : Cardinality(RequestsOf(c)) = 2

\* C8: a finished fetchPerson call one of whose requests was rejected is
\* itself rejected, with that request's error.
C8_ErrorsPropagate ==
    \A c \in CallsOf("fetchPerson") :
        \A i \in RequestsOf(c) :
            calls[c].pc = "done" /\ requests[i].result.state = "rejected" =>
                CallResult(c) = [state |-> "rejected", error |-> requests[i].result.error]

\* One search whose person request failed and one whose patient request
\* failed, with different errors.
C8_Witness ==
    \E c, d \in CallsOf("fetchPerson") :
        /\ calls[c].pc = "done" /\ Cardinality(RequestsOf(c)) = 1
        /\ requests[FirstRequest(c)].result = [state |-> "rejected", error |-> "NetworkError"]
        /\ calls[d].pc = "done" /\ Cardinality(RequestsOf(d)) = 2
        /\ requests[SecondRequest(d)].result
               = [state |-> "rejected", error |-> "OpenmrsFetchError"]

\* C9: a patient-search request exists only as the second request of a
\* fetchPerson call whose first request, the person search for the same
\* query, was answered with zero results before; a call whose person search
\* failed, is pending or was answered with results has issued that one
\* request only; no call has issued more than two.
C9_FallbackOrder ==
    /\ \A i \in 1..Len(requests) :
           requests[i].url \in {PatientSearchUrl(q) : q \in Queries} =>
               LET c == requests[i].call
               IN  /\ calls[c].fn = "fetchPerson"
                   /\ FirstRequest(c) < i
                   /\ requests[FirstRequest(c)].url = PersonUrl(calls[c].args[1])
                   /\ requests[i].url = PatientSearchUrl(calls[c].args[1])
                   /\ PersonAnswered(c, 0) /\ ~PersonAnswered(c, 1)
    /\ \A c \in CallsOf("fetchPerson") :
           /\ Cardinality(RequestsOf(c)) \in {1, 2}
           /\ requests[FirstRequest(c)].url = PersonUrl(calls[c].args[1])
           /\ Cardinality({i \in RequestsOf(c) : requests[i].result = Pending}) <= 1
           /\ ~(PersonAnswered(c, 0) /\ ~PersonAnswered(c, 1))
                  => Cardinality(RequestsOf(c)) = 1

\* A search that fell back beside one that was answered with a result.
C9_Witness ==
    \E c, d \in CallsOf("fetchPerson") :
        /\ Cardinality(RequestsOf(c)) = 2
        /\ requests[SecondRequest(c)].result = Pending
        /\ calls[d].pc = "done" /\ PersonAnswered(d, 1)

-----------------------------------------------------------------------------
(* Properties of the hook, under SpecHook *)

\* C3: no request for the observations of an empty patient uuid is ever
\* issued, and a render of usePatientPhoto('') hands the collaborator a null
\* key and returns data null with isLoading false, whatever was rendered and
\* fetched before.
C3_EmptyUuidSkipsFetch ==
    /\ \A i \in 1..Len(requests) : requests[i].url # ObsUrl("")
    /\ photo # Undefined /\ photo.patientUuid = "" =>
           /\ photo.key = Null
           /\ photo.ret.data = Null
           /\ photo.ret.isLoading = FALSE

\* The hook is rendered with '' after a photo was fetched for a patient and
\* while another patient's photo is still loading.
C3_Witness ==
    /\ photo # Undefined /\ photo.patientUuid = ""
    /\ \E i, j \in 1..Len(requests) :
           /\ requests[i].result.state = "fulfilled"
           /\ requests[i].result.value.data # Undefined
           /\ requests[i].result.value.data.results # <<>>
           /\ requests[j].result = Pending

\* C4: a render with a non-empty uuid returns data null when the
\* collaborator handed it no response or a response with an empty list, and
\* otherwise the obsDatetime and value.links.uri of the list's first
\* observation; data other than null is therefore never returned while the
\* key's request is pending, and comes from the first observation that
\* request was answered with.
C4_FirstObservation ==
    photo # Undefined /\ photo.patientUuid # "" =>
        LET d == photo.swr.data
            own == SwrRequests(Str(ObsUrl(photo.patientUuid)))
        IN  /\ photo.key = Str(ObsUrl(photo.patientUuid))
            /\ own # {}
            /\ IF d = Undefined \/ d.data = Undefined \/ d.data.results = <<>>
               THEN photo.ret.data = Null
               ELSE photo.ret.data = [dateTime |-> d.data.results[1].obsDatetime,
                                      imageSrc |-> d.data.results[1].value.links.uri]
            /\ photo.ret.data # Null =>
                   \A i \in own :
                       /\ requests[i].result.state = "fulfilled"
                       /\ photo.ret.data.dateTime
                              = requests[i].result.value.data.results[1].obsDatetime
                       /\ photo.ret.data.imageSrc
                              = requests[i].result.value.data.results[1].value.links.uri

\* A render returned the photo of a list of two observations.
C4_Witness ==
    /\ photo # Undefined /\ photo.patientUuid # ""
    /\ photo.swr.data # Undefined
    /\ photo.swr.data.data # Undefined
    /\ Len(photo.swr.data.data.results) = 2
    /\ photo.ret.data = [dateTime |-> "2023-06-30", imageSrc |-> "/obs/obs-2/value"]

-----------------------------------------------------------------------------
(* Properties of the photo upload, under SpecPhoto *)

Content(c) == calls[c].args[2]

HasComma(s) == \E k \in 1..Len(s) : s[k] = ","

\* What follows the first comma of s.
AfterFirstComma(s) ==
    LET k == CHOOSE k \in 1..Len(s) : s[k] = "," /\ \A j \in 1..(k - 1) : s[j] # ","
    IN  SubSeq(s, k + 1, Len(s))

BeforeFirstComma(s) ==
    LET k == CHOOSE k \in 1..Len(s) : s[k] = "," /\ \A j \in 1..(k - 1) : s[j] # ","
    IN  SubSeq(s, 1, k - 1)

\* The number of '=' a payload ends with.
PadCount(p) ==
    Cardinality({k \in 1..Len(p) : \A j \in k..Len(p) : p[j] = "="})

\* A base64 payload: groups of four characters of the alphabet, the last
\* group ending with at most two '='.
ValidPayload(p) ==
    /\ Len(p) % 4 = 0
    /\ PadCount(p) <= 2
    /\ \A k \in 1..(Len(p) - PadCount(p)) : p[k] \in Base64Chars

\* data:<mime>;base64,<payload>
ValidDataURI(s) ==
    /\ HasComma(s)
    /\ LET h == BeforeFirstComma(s)
       IN  /\ Len(h) > 12
           /\ SubSeq(h, 1, 5) = <<"d", "a", "t", "a", ":">>
           /\ SubSeq(h, Len(h) - 6, Len(h)) = <<";", "b", "a", "s", "e", "6", "4">>
    /\ ValidPayload(AfterFirstComma(s))

Sextet(p, k) == IF p[k] = "=" THEN 0 ELSE Base64Index(p[k])

\* Byte j (from 1) of the payload's decoding, by the base64 definition: four
\* sextets a, b, c, d carry the three bytes a*4 + b/16, (b%16)*16 + c/4,
\* (c%4)*64 + d.
DecodedByte(p, j) ==
    LET g == 4 * ((j - 1) \div 3)
        a == Sextet(p, g + 1)
        b == Sextet(p, g + 2)
        c == Sextet(p, g + 3)
        d == Sextet(p, g + 4)
    IN  CASE (j - 1) % 3 = 0 -> a * 4 + b \div 16
          [] (j - 1) % 3 = 1 -> (b % 16) * 16 + c \div 4
          [] OTHER -> (c % 4) * 64 + d

\* The file savePatientPhoto call c put into its form.
UploadedFile(c) == requests[calls[c].ret.req].body.entries[2][2]

\* C5: for a valid data URI the upload carries a file named patient-photo.png
\* whose blob has as many bytes as the payload decodes to, byte i being the
\* code of decoded character i.
C5_BlobBytes ==
    \A c \in CallsOf("savePatientPhoto") :
        ValidDataURI(Content(c)) =>
            LET p == AfterFirstComma(Content(c))
                n == 3 * (Len(p) \div 4) - PadCount(p)
            IN  /\ calls[c].ret.t = "promise"
                /\ UploadedFile(c).name = "patient-photo.png"
                /\ Len(UploadedFile(c).parts) = 1
                /\ Len(UploadedFile(c).parts[1].bytes) = n
                /\ \A j \in 1..n : UploadedFile(c).parts[1].bytes[j] = DecodedByte(p, j)

\* A text/x data URI whose payload decodes to three bytes was uploaded.
C5_Witness ==
    \E c \in CallsOf("savePatientPhoto") :
        /\ ValidDataURI(Content(c))
        /\ Content(c)[6] = "t"
        /\ Len(AfterFirstComma(Content(c))) = 4
        /\ PadCount(AfterFirstComma(Content(c))) = 0
        /\ UploadedFile(c).parts[1].bytes # <<0, 0, 0>>
        /\ UploadedFile(c).parts[1].type = <<"t", "e", "x", "t", "/", "x">>

\* C10: savePatientPhoto with content that holds no comma is rejected with
\* the decoder's InvalidCharacterError and has issued no request.
C10_MalformedRejects ==
    \A c \in CallsOf("savePatientPhoto") :
        ~HasComma(Content(c)) =>
            /\ calls[c].ret = [t |-> "rejected", error |-> "InvalidCharacterError"]
            /\ RequestsOf(c) = {}
            /\ requests = <<>>

\* Content without a comma that is itself eight characters of the base64
\* alphabet was passed.
C10_Witness ==
    \E c \in CallsOf("savePatientPhoto") :
        /\ ~HasComma(Content(c))
        /\ Len(Content(c)) = 8
        /\ \A k \in 1..Len(Content(c)) : Content(c)[k] \in Base64Chars

====
